---- MODULE Spec2Model ----
(***************************************************************************)
(* Model of the batched, gap-filling retrieval pipeline of career-roadmap: *)
(* fetchTopColleges (src/src/config/domains.ts, lines 311-493) driving     *)
(* fetchBatch over rank windows with bounded retries and one gap pass.     *)
(*                                                                         *)
(* One step of the model is one resumption of the async function: the      *)
(* code that runs between two awaits (an upstream call settling, a sleep   *)
(* elapsing) up to and including the next await it starts.                 *)
(***************************************************************************)
EXTENDS Integers, Sequences, FiniteSets, TLC

\* ---------------------------------------------------------------- bounds
\* largest domain.count explored (the shipped domains use 100)
MaxTarget == 25
\* how many records beyond the requested width upstream may over-return
\* (fetchBatch keeps every item of the parsed array, lines 596-610)
OverReturn == 10

\* longest raw field text explored
MaxStrLen == 5

\* most records handed to the sheets writer
MaxRecords == 2

\* longest exam-name or exam-date text explored, in tokens
MaxExamLen == 3

\* ----------------------------------------------------- program constants
MAX_RETRIES == 3
BATCH_SIZE == 10
RETRY_BACKOFF_MS == 2000
BATCH_DELAY_MS == 1000

VARIABLES
  TOTAL_COLLEGES,  \* domain.count, fixed for the run
  pc,              \* where the async function is suspended
  batches,         \* initial windows, in order
  gapBatches,      \* gap windows, in order (empty until the gap pass)
  missingRanks,    \* ranks unconfirmed after the initial pass
  batchIdx,        \* position of the for-of loop in batches / gapBatches
  success,         \* loop variable of the current window
  attempt,         \* loop variable of the current window
  colleges,        \* the accumulator
  fetchedRanks,    \* the confirmed-rank set
  trace            \* what the run did to the outside: fetches, results, sleeps

\* the retrieval run (fetchTopColleges)
runVars == <<TOTAL_COLLEGES, pc, batches, gapBatches, missingRanks, batchIdx,
             success, attempt, colleges, fetchedRanks, trace>>

VARIABLES
  response,        \* what upstream answers to the one call of a fetch client
  clientPc,        \* which fetch client function has been applied
  clientOut,       \* what that function returned or threw
  clientAgain      \* normalizeColleges applied to its own output

\* the fetch clients taken on their own (fetchBatch, the legacy client)
clientVars == <<response, clientPc, clientOut, clientAgain>>

VARIABLES
  sinkVariant,     \* which writer runs: "current" (with tabName) or "legacy"
  sinkPc,          \* where writeCollegesToSheet is suspended
  sinkInput,       \* the records it was handed
  tabName,         \* the destination tab
  sheetTabs,       \* titles of the tabs the spreadsheet has
  sinkLog,         \* requests sent to the spreadsheet service and their fate
  written          \* range and values of the update request

\* the sheets writer (writeCollegesToSheet)
sinkVars == <<sinkVariant, sinkPc, sinkInput, tabName, sheetTabs, sinkLog,
              written>>

VARIABLES
  examNames,       \* a record's entranceExamRequired
  examDates,       \* a record's entranceExamDate
  examPc,          \* whether the two cells have been computed
  examCells        \* the exam-name cell and the exam-date cell

\* the exam cells of one row taken on their own
examVars == <<examNames, examDates, examPc, examCells>>

VARIABLES
  mainPc,          \* where the legacy main() is suspended
  exitCode         \* process.exitCode as the process ends (unset counts 0)

\* the legacy entry point (scripts/fetchColleges.ts)
mainVars == <<mainPc, exitCode>>

VARIABLES
  processEnv,      \* the environment after dotenv.config()
  envPc,           \* whether config/env.ts has been evaluated
  env              \* the exported configuration object

\* the configuration module (config/env.ts)
envVars == <<processEnv, envPc, env>>

\* everything but the retrieval run
notRunVars == <<clientVars, sinkVars, examVars, mainVars, envVars>>

\* everything but the fetch clients
notClientVars == <<runVars, sinkVars, examVars, mainVars, envVars>>

\* everything but the sheets writer
notSinkVars == <<runVars, clientVars, examVars, mainVars, envVars>>

vars == <<runVars, notRunVars>>

Min(a, b) == IF a < b THEN a ELSE b

\* ------------------------------------------------------------ partition
\* variant: the last window is not clamped to the target count
RECURSIVE BuildBatches_noClamp(_, _)
BuildBatches_noClamp(i, total) ==
  IF i < total
  THEN <<[startRank |-> i + 1, endRank |-> i + BATCH_SIZE]>>
         \o BuildBatches_noClamp(i + BATCH_SIZE, total)
  ELSE <<>>

\* for (let i = 0; i < TOTAL_COLLEGES; i += BATCH_SIZE) batches.push(...)
RECURSIVE BuildBatches(_, _)
BuildBatches(i, total) ==
  IF i < total
  THEN <<[startRank |-> i + 1, endRank |-> Min(i + BATCH_SIZE, total)]>>
         \o BuildBatches(i + BATCH_SIZE, total)
  ELSE <<>>

\* variant: the scan stops one rank short of the target count
\* variant: every rank is listed, confirmed or not
RECURSIVE CollectMissing_ignoreConfirmed(_, _, _)
CollectMissing_ignoreConfirmed(rank, total, fetched) ==
  IF rank <= total
  THEN <<rank>> \o CollectMissing_ignoreConfirmed(rank + 1, total, fetched)
  ELSE <<>>

RECURSIVE CollectMissing_offByOne(_, _, _)
CollectMissing_offByOne(rank, total, fetched) ==
  IF rank < total
  THEN (IF rank \notin fetched THEN <<rank>> ELSE <<>>)
         \o CollectMissing_offByOne(rank + 1, total, fetched)
  ELSE <<>>

\* for (let rank = 1; rank <= TOTAL; rank++) if (!fetchedRanks.has(rank)) push
RECURSIVE CollectMissing(_, _, _)
CollectMissing(rank, total, fetched) ==
  IF rank <= total
  THEN (IF rank \notin fetched THEN <<rank>> ELSE <<>>)
         \o CollectMissing(rank + 1, total, fetched)
  ELSE <<>>

\* variant: the end index is taken as inclusive
Slice_inclusive(s, from, to) == SubSeq(s, from + 1, Min(to + 1, Len(s)))

\* missingRanks.slice(i, i + BATCH_SIZE), zero-based, end exclusive
Slice(s, from, to) == SubSeq(s, from + 1, Min(to, Len(s)))

\* variant: every gap window is given the full batch width
RECURSIVE BuildGapBatches_fixedWidth(_, _)
BuildGapBatches_fixedWidth(i, missing) ==
  IF i < Len(missing)
  THEN <<[startRank |-> missing[i + 1],
          endRank |-> missing[i + 1] + BATCH_SIZE - 1]>>
         \o BuildGapBatches_fixedWidth(i + BATCH_SIZE, missing)
  ELSE <<>>

\* for (let i = 0; i < missingRanks.length; i += BATCH_SIZE) gapBatches.push(...)
RECURSIVE BuildGapBatches(_, _)
BuildGapBatches(i, missing) ==
  IF i < Len(missing)
  THEN LET batchRanks == Slice(missing, i, i + BATCH_SIZE)
       IN (IF Len(batchRanks) > 0
           THEN <<[startRank |-> batchRanks[1],
                   endRank |-> batchRanks[Len(batchRanks)]]>>
           ELSE <<>>)
            \o BuildGapBatches(i + BATCH_SIZE, missing)
  ELSE <<>>

\* for (let rank = batch.startRank; rank <= batch.endRank; rank++) add(rank)
RanksOf(batch) == batch.startRank .. batch.endRank

\* ------------------------------------------------------- upstream inputs
\* the record counts a settled fetchBatch may deliver for a window: nothing,
\* one record, the requested count, or more than was asked for
Width(batch) == batch.endRank - batch.startRank + 1
ResultSizes(batch) == {0, 1, Width(batch), Width(batch) + OverReturn}

\* the n records of one batch result; req numbers the upstream call
BatchResult(req, n) == [j \in 1..n |-> [req |-> req, item |-> j]]

\* -------------------------------------------------------------- the trace
FetchEv(batch, gap) ==
  [ev |-> "fetch", gap |-> gap, startRank |-> batch.startRank,
   endRank |-> batch.endRank]
ResultEv(n) == [ev |-> "result", n |-> n]
SleepEv(ms) == [ev |-> "sleep", ms |-> ms]

FetchPositions(tr) == {i \in DOMAIN tr : tr[i].ev = "fetch"}
NumFetches(tr) == Cardinality(FetchPositions(tr))

\* no fetch client is being looked at on its own
ClientIdle ==
  /\ response = "none"
  /\ clientPc = "idle"
  /\ clientOut = "none"
  /\ clientAgain = "none"

\* no sheet is being written
SinkIdle ==
  /\ sinkVariant = "none"
  /\ sinkPc = "idle"
  /\ sinkInput = <<>>
  /\ tabName = "none"
  /\ sheetTabs = {}
  /\ sinkLog = <<>>
  /\ written = "none"

\* no exam cells are being looked at on their own
ExamIdle ==
  /\ examNames = "none"
  /\ examDates = "none"
  /\ examPc = "idle"
  /\ examCells = "none"

\* the configuration module is out of the picture
EnvIdle ==
  /\ processEnv = "none"
  /\ envPc = "idle"
  /\ env = "none"

\* the legacy entry point is not running
MainIdle ==
  /\ mainPc = "idle"
  /\ exitCode = 0

\* no retrieval run is under way
RunIdle ==
  /\ TOTAL_COLLEGES = 0
  /\ pc = "idle"
  /\ batches = <<>>
  /\ gapBatches = <<>>
  /\ missingRanks = <<>>
  /\ batchIdx = 0
  /\ success = FALSE
  /\ attempt = 0
  /\ colleges = <<>>
  /\ fetchedRanks = {}
  /\ trace = <<>>

Init ==
  /\ TOTAL_COLLEGES \in 1..MaxTarget
  /\ pc = "start"
  /\ batches = <<>>
  /\ gapBatches = <<>>
  /\ missingRanks = <<>>
  /\ batchIdx = 0
  /\ success = FALSE
  /\ attempt = 0
  /\ colleges = <<>>
  /\ fetchedRanks = {}
  /\ trace = <<>>
  /\ ClientIdle
  /\ SinkIdle
  /\ ExamIdle
  /\ MainIdle
  /\ EnvIdle


\* ------------------------------------------------ loop conditions (code)
\* variant: a full accumulator still counts as below the target
BelowTarget_offByOne(len) == len <= TOTAL_COLLEGES

\* colleges.length < TOTAL_COLLEGES                       lines 413 and 438
BelowTarget(len) == len < TOTAL_COLLEGES

\* variant: a failed window is never retried
InitialWhileCond_noRetry(s, a) == ~s /\ a < 1

\* variant: one attempt too many
InitialWhileCond_offByOne(s, a) == ~s /\ a <= MAX_RETRIES

\* while (!success && attempt < MAX_RETRIES)                      line 338
InitialWhileCond(s, a) == ~s /\ a < MAX_RETRIES

\* variant: a gap batch is given a single attempt
GapWhileCond_once(s, a, len) == ~s /\ a < 1 /\ BelowTarget(len)

\* variant: the gap loop does not look at the accumulator
GapWhileCond_noTarget(s, a, len) == ~s /\ a < MAX_RETRIES

\* while (!success && attempt < MAX_RETRIES && colleges.length < TOTAL)
\*                                                          lines 435-439
GapWhileCond(s, a, len) == ~s /\ a < MAX_RETRIES /\ BelowTarget(len)

\* variant: the backoff is not skipped after the final attempt
NeedsBackoff_always(s, a) == ~s

\* variant: the backoff is also slept after a successful attempt
NeedsBackoff_afterSuccess(s, a) == a < MAX_RETRIES

\* if (!success && attempt < MAX_RETRIES) await sleep(2000)  lines 396, 472
NeedsBackoff(s, a) == ~s /\ a < MAX_RETRIES

\* variant: the result is taken as a success without looking at its length
IsYield_always(n) == TRUE

\* variant: a result of a single record is ignored
IsYield_moreThanOne(n) == n > 1

\* variant: an empty result counts as a success
IsYield_orEmpty(n) == n >= 0

\* if (batchResult.colleges.length > 0)                      lines 356, 451
IsYield(n) == n > 0

\* if (missingRanks.length > 0 && colleges.length < TOTAL)        line 413
GapPassNeeded(missing, len) == Len(missing) > 0 /\ BelowTarget(len)

\* variant: the error of the final attempt is thrown on
InitialCatch_rethrowLast(a) == IF a < MAX_RETRIES THEN "caught" ELSE "rethrown"

\* catch (error) { console.warn / console.error }  lines 382-394, 465-470:
\* the handler only logs, so the try statement completes normally
InitialCatch(a) == "caught"
GapCatch(a) == "caught"

\* -------------------------------------------------- control continuations
\* These set pc, batchIdx, success, attempt and trace; the actions that use
\* them set the remaining variables.

\* return { colleges }                                      lines 490-492
Return(tr) ==
  /\ pc' = "returned"
  /\ trace' = tr
  /\ UNCHANGED <<batchIdx, success, attempt>>

\* the promise of fetchTopColleges rejects
Reject(tr) ==
  /\ pc' = "rejected"
  /\ trace' = tr
  /\ UNCHANGED <<batchIdx, success, attempt>>

\* the while loop of window idx of the initial pass, entered with loop
\* variables s and a: either the next fetchBatch is started (339-355) or the
\* loop is left and sleep(1000) is started (402)
InitialLoop(bs, idx, s, a, tr) ==
  /\ batchIdx' = idx
  /\ success' = s
  /\ IF InitialWhileCond(s, a)
     THEN /\ attempt' = a + 1
          /\ pc' = "fetchInitial"
          /\ trace' = Append(tr, FetchEv(bs[idx], FALSE))
     ELSE /\ attempt' = a
          /\ pc' = "delayInitial"
          /\ trace' = tr

\* the same for gap window idx (435-450, 476); len is colleges.length
GapLoop(gb, idx, s, a, len, tr) ==
  /\ batchIdx' = idx
  /\ success' = s
  /\ IF GapWhileCond(s, a, len)
     THEN /\ attempt' = a + 1
          /\ pc' = "fetchGap"
          /\ trace' = Append(tr, FetchEv(gb[idx], TRUE))
     ELSE /\ attempt' = a
          /\ pc' = "delayGap"
          /\ trace' = tr

\* for (const gapBatch of gapBatches) reaching position idx      line 431
GapFor(gb, idx, len, tr) ==
  IF idx <= Len(gb)
  THEN GapLoop(gb, idx, FALSE, 0, len, tr)
  ELSE Return(tr)

\* lines 405-428 and the entry into the gap pass, run when the for-of over
\* batches is exhausted
AfterInitialPass(tr) ==
  LET missing == CollectMissing(1, TOTAL_COLLEGES, fetchedRanks)
  IN /\ missingRanks' = missing
     /\ IF GapPassNeeded(missing, Len(colleges))
        THEN LET gb == BuildGapBatches(0, missing)
             IN /\ gapBatches' = gb
                /\ GapFor(gb, 1, Len(colleges), tr)
        ELSE /\ gapBatches' = gapBatches
             /\ Return(tr)

\* for (const batch of batches) reaching position idx            line 334
InitialFor(bs, idx, tr) ==
  IF idx <= Len(bs)
  THEN /\ InitialLoop(bs, idx, FALSE, 0, tr)
       /\ UNCHANGED <<missingRanks, gapBatches>>
  ELSE AfterInitialPass(tr)

\* ---------------------------------------------------------------- actions
\* fetchTopColleges is called: lines 320-355 up to the first await
Start ==
  /\ pc = "start"
  /\ UNCHANGED notRunVars
  /\ LET bs == BuildBatches(0, TOTAL_COLLEGES)
     IN /\ batches' = bs
        /\ InitialFor(bs, 1, trace)
  /\ UNCHANGED <<TOTAL_COLLEGES, colleges, fetchedRanks>>

\* what follows try/catch in the initial pass: backoff (396-398) or loop
AfterInitialAttempt(s, tr) ==
  IF NeedsBackoff(s, attempt)
  THEN /\ pc' = "backoffInitial"
       /\ success' = s
       /\ trace' = tr
       /\ UNCHANGED <<batchIdx, attempt>>
  ELSE InitialLoop(batches, batchIdx, s, attempt, tr)

\* lines 356-381 and what follows, run with a batchResult of n records
InitialResult(n) ==
  /\ LET tr == Append(trace, ResultEv(n))
     IN IF IsYield(n)
        THEN /\ colleges' = colleges \o BatchResult(NumFetches(trace), n)
             /\ fetchedRanks' = fetchedRanks \cup RanksOf(batches[batchIdx])
             /\ AfterInitialAttempt(TRUE, tr)
        ELSE /\ UNCHANGED <<colleges, fetchedRanks>>
             /\ AfterInitialAttempt(success, tr)
  /\ UNCHANGED <<TOTAL_COLLEGES, batches, missingRanks, gapBatches>>

\* lines 382-394 and what follows, run with the error fetchBatch threw
InitialError ==
  /\ LET tr == Append(trace, ResultEv(0))
     IN IF InitialCatch(attempt) = "caught"
        THEN AfterInitialAttempt(success, tr)
        ELSE Reject(tr)
  /\ UNCHANGED <<TOTAL_COLLEGES, batches, missingRanks, gapBatches,
                 colleges, fetchedRanks>>

\* the awaited fetchBatch of the initial pass resolves with n records
InitialFetchReturns ==
  /\ pc = "fetchInitial"
  /\ UNCHANGED notRunVars
  /\ \E n \in ResultSizes(batches[batchIdx]) : InitialResult(n)

\* the awaited fetchBatch of the initial pass rejects
InitialFetchThrows ==
  /\ pc = "fetchInitial"
  /\ UNCHANGED notRunVars
  /\ InitialError

\* sleep(2000) of the initial pass elapses                       line 397
InitialBackoffElapses ==
  /\ pc = "backoffInitial"
  /\ UNCHANGED notRunVars
  /\ InitialLoop(batches, batchIdx, success, attempt,
                 Append(trace, SleepEv(RETRY_BACKOFF_MS)))
  /\ UNCHANGED <<TOTAL_COLLEGES, batches, missingRanks, gapBatches,
                 colleges, fetchedRanks>>

\* sleep(1000) of the initial pass elapses                       line 402
InitialDelayElapses ==
  /\ pc = "delayInitial"
  /\ UNCHANGED notRunVars
  /\ InitialFor(batches, batchIdx + 1, Append(trace, SleepEv(BATCH_DELAY_MS)))
  /\ UNCHANGED <<TOTAL_COLLEGES, batches, colleges, fetchedRanks>>

\* what follows try/catch in the gap pass: backoff (472-474) or loop
AfterGapAttempt(s, len, tr) ==
  IF NeedsBackoff(s, attempt)
  THEN /\ pc' = "backoffGap"
       /\ success' = s
       /\ trace' = tr
       /\ UNCHANGED <<batchIdx, attempt>>
  ELSE GapLoop(gapBatches, batchIdx, s, attempt, len, tr)

\* lines 451-464 and what follows, run with a batchResult of n records
GapResult(n) ==
  /\ LET tr == Append(trace, ResultEv(n))
     IN IF IsYield(n)
        THEN /\ colleges' = colleges \o BatchResult(NumFetches(trace), n)
             /\ fetchedRanks' = fetchedRanks \cup RanksOf(gapBatches[batchIdx])
             /\ AfterGapAttempt(TRUE, Len(colleges) + n, tr)
        ELSE /\ UNCHANGED <<colleges, fetchedRanks>>
             /\ AfterGapAttempt(success, Len(colleges), tr)
  /\ UNCHANGED <<TOTAL_COLLEGES, batches, missingRanks, gapBatches>>

\* lines 465-470 and what follows, run with the error fetchBatch threw
GapError ==
  /\ LET tr == Append(trace, ResultEv(0))
     IN IF GapCatch(attempt) = "caught"
        THEN AfterGapAttempt(success, Len(colleges), tr)
        ELSE Reject(tr)
  /\ UNCHANGED <<TOTAL_COLLEGES, batches, missingRanks, gapBatches,
                 colleges, fetchedRanks>>

\* the awaited fetchBatch of the gap pass resolves with n records
GapFetchReturns ==
  /\ pc = "fetchGap"
  /\ UNCHANGED notRunVars
  /\ \E n \in ResultSizes(gapBatches[batchIdx]) : GapResult(n)

\* the awaited fetchBatch of the gap pass rejects
GapFetchThrows ==
  /\ pc = "fetchGap"
  /\ UNCHANGED notRunVars
  /\ GapError

\* sleep(2000) of the gap pass elapses                           line 473
GapBackoffElapses ==
  /\ pc = "backoffGap"
  /\ UNCHANGED notRunVars
  /\ GapLoop(gapBatches, batchIdx, success, attempt, Len(colleges),
             Append(trace, SleepEv(RETRY_BACKOFF_MS)))
  /\ UNCHANGED <<TOTAL_COLLEGES, batches, missingRanks, gapBatches,
                 colleges, fetchedRanks>>

\* sleep(1000) of the gap pass elapses                           line 476
GapDelayElapses ==
  /\ pc = "delayGap"
  /\ UNCHANGED notRunVars
  /\ GapFor(gapBatches, batchIdx + 1, Len(colleges),
            Append(trace, SleepEv(BATCH_DELAY_MS)))
  /\ UNCHANGED <<TOTAL_COLLEGES, batches, missingRanks, gapBatches,
                 colleges, fetchedRanks>>

Next ==
  \/ Start
  \/ InitialFetchReturns
  \/ InitialFetchThrows
  \/ InitialBackoffElapses
  \/ InitialDelayElapses
  \/ GapFetchReturns
  \/ GapFetchThrows
  \/ GapBackoffElapses
  \/ GapDelayElapses

Spec == Init /\ [][Next]_vars

\* every await settles: the upstream call has a request timeout (line 576)
\* and the sleeps are timers
FairSpec == Spec /\ WF_vars(Next)

TypeOK ==
  /\ TOTAL_COLLEGES \in 1..MaxTarget
  /\ pc \in {"start", "fetchInitial", "backoffInitial", "delayInitial",
             "fetchGap", "backoffGap", "delayGap", "returned", "rejected"}
  /\ attempt \in 0..MAX_RETRIES
  /\ success \in BOOLEAN
  /\ fetchedRanks \subseteq 1..TOTAL_COLLEGES


\* ------------------------------------------------- reading the trace back
InInitialPass == pc \in {"fetchInitial", "backoffInitial", "delayInitial"}
InGapPass == pc \in {"fetchGap", "backoffGap", "delayGap"}
InitialPassOver == InGapPass \/ pc = "returned"

\* positions of the upstream calls made for one window in one pass
FetchesOf(gap, batch) ==
  {p \in FetchPositions(trace) : trace[p] = FetchEv(batch, gap)}

\* the call at position p has settled, with n records
Settled(p) == p + 1 <= Len(trace)
Yielded(p) == Settled(p) /\ trace[p + 1].n > 0
Failed(p) == Settled(p) /\ trace[p + 1].n = 0

\* the upstream call at position p is the k-th call of the run
ReqNo(p) == Cardinality({q \in FetchPositions(trace) : q <= p})

\* the retry loop of initial window i has been left
InitialWindowEnded(i) ==
  /\ i \in 1..Len(batches)
  /\ \/ InitialPassOver
     \/ InInitialPass /\ (i < batchIdx \/ (i = batchIdx /\ pc = "delayInitial"))

\* the retry loop of gap window i has been left
GapWindowEnded(i) ==
  /\ i \in 1..Len(gapBatches)
  /\ \/ pc = "returned"
     \/ InGapPass /\ (i < batchIdx \/ (i = batchIdx /\ pc = "delayGap"))

\* backoff sleeps that elapsed between the first and the last call of a window
BackoffsOf(gap, batch) ==
  LET ps == FetchesOf(gap, batch)
  IN {q \in DOMAIN trace :
        /\ trace[q] = SleepEv(RETRY_BACKOFF_MS)
        /\ \E p \in ps : p < q
        /\ \E p \in ps : q < p}

\* a backoff sleep elapsed right after the call at position p settled
BackoffAfter(p) ==
  p + 2 <= Len(trace) /\ trace[p + 2] = SleepEv(RETRY_BACKOFF_MS)

RangeOf(seq) == {seq[i] : i \in DOMAIN seq}

\* ------------------------------------------------------------------ C1
\* C1: once built, the initial windows are consecutive inclusive ranges that
\* cover [1, targetCount] with every rank in exactly one window; every window
\* but the last has width BATCH_SIZE and the last has width
\* targetCount mod BATCH_SIZE (BATCH_SIZE when that is 0); targetCount = 25
\* gives exactly [1-10], [11-20], [21-25].
C1_PartitionExact ==
  pc # "start" =>
    LET n == Len(batches)
        rem == TOTAL_COLLEGES % BATCH_SIZE
    IN /\ n >= 1
       /\ batches[1].startRank = 1
       /\ batches[n].endRank = TOTAL_COLLEGES
       /\ \A i \in 1..n : batches[i].startRank <= batches[i].endRank
       /\ \A i \in 1..(n - 1) :
            /\ batches[i + 1].startRank = batches[i].endRank + 1
            /\ Width(batches[i]) = BATCH_SIZE
       /\ Width(batches[n]) = (IF rem = 0 THEN BATCH_SIZE ELSE rem)
       /\ \A r \in 1..TOTAL_COLLEGES :
            Cardinality({i \in 1..n : r \in RanksOf(batches[i])}) = 1
       /\ \A i \in 1..n : RanksOf(batches[i]) \subseteq 1..TOTAL_COLLEGES
       /\ (TOTAL_COLLEGES = 25 =>
             batches = << [startRank |-> 1, endRank |-> 10],
                          [startRank |-> 11, endRank |-> 20],
                          [startRank |-> 21, endRank |-> 25] >>)

C1_Witness ==
  /\ pc # "start"
  /\ TOTAL_COLLEGES = 25
  /\ Len(batches) = 3
  /\ Width(batches[3]) = 5


\* ------------------------------------------------------------------ C2
\* a fetchBatch of the initial pass settles without records: it resolved
\* with an empty list or it rejected
EmptyOrThrown == pc = "fetchInitial" /\ trace' = Append(trace, ResultEv(0))

\* what one failed attempt of the initial pass amounts to: the attempt
\* counter keeps the value it got when the call was started, nothing is
\* recorded, and the window goes on to its next attempt unless this was
\* attempt MAX_RETRIES
OneFailedAttempt ==
  /\ attempt' = attempt
  /\ success' = FALSE
  /\ colleges' = colleges
  /\ fetchedRanks' = fetchedRanks
  /\ pc' = (IF attempt < MAX_RETRIES THEN "backoffInitial" ELSE "delayInitial")

C2_WindowAttempts ==
  \A i \in 1..Len(batches) :
    LET ps == FetchesOf(FALSE, batches[i])
    IN /\ Cardinality(ps) <= MAX_RETRIES
       /\ (InitialWindowEnded(i) => Cardinality(ps) >= 1)
       /\ (InInitialPass /\ i = batchIdx => attempt = Cardinality(ps))
       /\ \A p \in ps : Yielded(p) => \A q \in ps : q <= p
       /\ \A p \in ps : Failed(p) /\ Cardinality(ps) < MAX_RETRIES
                          /\ InitialWindowEnded(i) => \E q \in ps : q > p

\* C2: in the initial pass every window gets at least 1 and at most
\* MAX_RETRIES attempts, the attempt counter equals the number of upstream
\* calls made for the window, no call follows a call that returned records,
\* a window with fewer than MAX_RETRIES calls ends on a call that returned
\* records, and an empty result and a thrown error each use up one attempt.
C2_InitialAttemptsBounded ==
  /\ []C2_WindowAttempts
  /\ [][InitialFetchThrows => OneFailedAttempt]_vars
  /\ [][EmptyOrThrown => OneFailedAttempt]_vars

C2_Witness ==
  /\ pc = "delayInitial"
  /\ \E i, j \in 1..Len(batches) :
       /\ j = batchIdx
       /\ Cardinality(FetchesOf(FALSE, batches[i])) = MAX_RETRIES
       /\ \A p \in FetchesOf(FALSE, batches[i]) : Failed(p)
       /\ Cardinality(FetchesOf(FALSE, batches[j])) = 2
       /\ \E p \in FetchesOf(FALSE, batches[j]) : Yielded(p)

\* ------------------------------------------------------------------ C3
\* the calls of a window that were followed by a backoff sleep
BackedOff(ps) == {p \in ps : BackoffAfter(p)}

C3_Window(gap, batch) ==
  LET ps == FetchesOf(gap, batch)
  IN /\ Cardinality(BackedOff(ps)) = Cardinality(ps) - 1
     /\ \A p \in ps : BackoffAfter(p) <=> (Failed(p) /\ \E q \in ps : q > p)
     /\ \A p \in ps :
          Yielded(p) =>
            /\ RanksOf(batch) \subseteq fetchedRanks
            /\ \A j \in 1..trace[p + 1].n :
                 [req |-> ReqNo(p), item |-> j] \in RangeOf(colleges)

\* C3: a window that has ended after k >= 1 attempts has had exactly k - 1
\* backoff sleeps, one after each attempt but the last, and every backoff
\* sleep of the run directly follows a failed attempt; when an attempt
\* returns records (the third one included) they are in the accumulator and
\* every rank of the window is confirmed.
C3_BackoffsBetweenAttempts ==
  /\ \A q \in DOMAIN trace :
       trace[q] = SleepEv(RETRY_BACKOFF_MS) =>
         q > 2 /\ (q - 2) \in FetchPositions(trace) /\ Failed(q - 2)
  /\ \A i \in 1..Len(batches) :
       InitialWindowEnded(i) => C3_Window(FALSE, batches[i])
  /\ \A i \in 1..Len(gapBatches) :
       GapWindowEnded(i) /\ FetchesOf(TRUE, gapBatches[i]) # {} =>
         C3_Window(TRUE, gapBatches[i])

C3_Witness ==
  /\ pc = "delayInitial"
  /\ LET ps == FetchesOf(FALSE, batches[batchIdx])
     IN /\ Cardinality(ps) = 3
        /\ Cardinality({p \in ps : Failed(p)}) = 2
        /\ Cardinality({p \in ps : Yielded(p)}) = 1
        /\ Cardinality(BackedOff(ps)) = 2
        /\ RanksOf(batches[batchIdx]) \subseteq fetchedRanks
        /\ Len(colleges) = 10

\* ------------------------------------------------------------------ C4
\* C4: a rank is confirmed only if some settled call for a window containing
\* it returned at least one record, and once a call has returned at least
\* one record every rank of the requested window is confirmed, however many
\* records came back.
C4_ConfirmedIffYielded ==
  /\ \A r \in fetchedRanks :
       \E p \in FetchPositions(trace) :
         Yielded(p) /\ r \in trace[p].startRank .. trace[p].endRank
  /\ \A p \in FetchPositions(trace) :
       Yielded(p) => (trace[p].startRank .. trace[p].endRank) \subseteq fetchedRanks

C4_Witness ==
  /\ Cardinality(fetchedRanks) = 10
  /\ Len(colleges) = 1
  /\ \E p \in FetchPositions(trace) : Failed(p)


\* ------------------------------------------------------------------ C5
Window11to20 == [startRank |-> 11, endRank |-> 20]

\* window [11-20] was tried MAX_RETRIES times in the initial pass and never
\* returned a record
Exhausted11to20 ==
  /\ Cardinality(FetchesOf(FALSE, Window11to20)) = MAX_RETRIES
  /\ \A p \in FetchesOf(FALSE, Window11to20) : Failed(p)

\* C5 as stated: when window [11-20] exhausts its retries, ranks 11-20 are in
\* missingRanks and the run has issued a gap request for [11-20] by the time
\* it returns.
C5_GapRequestAlways ==
  pc = "returned" /\ Exhausted11to20 =>
    /\ 11..20 \subseteq RangeOf(missingRanks)
    /\ FetchesOf(TRUE, Window11to20) # {}

\* C5 (amended): when window [11-20] exhausts its retries, ranks 11-20 are in
\* missingRanks after the initial pass, [11-20] is a gap window exactly when
\* the gap pass runs, and a run that returns without having issued a gap
\* request for [11-20] holds at least targetCount records.
C5_GapRequestUnlessTargetReached ==
  Exhausted11to20 /\ InitialPassOver =>
    /\ 11..20 \subseteq RangeOf(missingRanks)
    /\ (gapBatches # <<>> => Window11to20 \in RangeOf(gapBatches))
    /\ (pc = "returned" /\ FetchesOf(TRUE, Window11to20) = {} =>
          Len(colleges) >= TOTAL_COLLEGES)

C5_Witness ==
  /\ pc = "returned"
  /\ Exhausted11to20
  /\ FetchesOf(TRUE, Window11to20) # {}
  /\ 11..20 \subseteq RangeOf(missingRanks)

\* ------------------------------------------------------------------ C6
GapFetchPositions == {p \in FetchPositions(trace) : trace[p].gap}
InitialFetchPositions == {p \in FetchPositions(trace) : ~trace[p].gap}

\* the records delivered by the settled calls among ps
RECURSIVE SumYield(_)
SumYield(ps) ==
  IF ps = {} THEN 0
  ELSE LET p == CHOOSE x \in ps : TRUE
       IN trace[p + 1].n + SumYield(ps \ {p})

\* what the accumulator holds when the initial pass ends
InitialYield == SumYield({p \in InitialFetchPositions : Settled(p)})

\* C6: if the initial pass delivered at least targetCount records, the run
\* issues no gap request at all, also when some ranks are unconfirmed.
C6_NoGapRequestOnceTargetMet ==
  InitialPassOver =>
    /\ (GapFetchPositions = {} => Len(colleges) = InitialYield)
    /\ (InitialYield >= TOTAL_COLLEGES => GapFetchPositions = {})

C6_Witness ==
  /\ pc = "returned"
  /\ InitialYield >= TOTAL_COLLEGES
  /\ Len(colleges) >= TOTAL_COLLEGES
  /\ Len(missingRanks) > 0
  /\ GapFetchPositions = {}

\* ------------------------------------------------------------------ C7
\* the ranks confirmed by the initial pass, read from the trace
ConfirmedInInitialPass ==
  UNION {trace[p].startRank .. trace[p].endRank :
           p \in {q \in InitialFetchPositions : Yielded(q)}}

GapRangeOK(lo, hi) ==
  /\ hi - lo + 1 >= 1
  /\ hi - lo + 1 <= BATCH_SIZE
  /\ (lo .. hi) \subseteq RangeOf(missingRanks)
  /\ (lo .. hi) \cap ConfirmedInInitialPass = {}

\* C7: after the initial pass missingRanks holds exactly the ranks the
\* initial pass left unconfirmed, and every gap window, and every gap request
\* issued, is a range of width 1..BATCH_SIZE made of such ranks only.
C7_GapBatchesOnlyMissing ==
  InitialPassOver =>
    /\ RangeOf(missingRanks) = (1..TOTAL_COLLEGES) \ ConfirmedInInitialPass
    /\ \A i \in 1..Len(gapBatches) :
         GapRangeOK(gapBatches[i].startRank, gapBatches[i].endRank)
    /\ \A p \in GapFetchPositions :
         GapRangeOK(trace[p].startRank, trace[p].endRank)

C7_Witness ==
  /\ pc = "returned"
  /\ gapBatches = << [startRank |-> 1, endRank |-> 10],
                     [startRank |-> 21, endRank |-> 25] >>
  /\ ConfirmedInInitialPass = 11..20
  /\ FetchesOf(TRUE, gapBatches[2]) # {}

\* ------------------------------------------------------------------ C8
\* the records delivered by the calls that settled before position p
YieldBefore(p) == SumYield({q \in FetchPositions(trace) : q < p})

\* C8: every gap request is issued while the accumulator is below
\* targetCount: a gap call in flight sees fewer than targetCount records, and
\* the calls settled before any gap request delivered fewer than targetCount
\* records in total.
C8_NoGapRequestAtTarget ==
  /\ (pc = "fetchGap" => Len(colleges) < TOTAL_COLLEGES)
  /\ \A p \in GapFetchPositions : YieldBefore(p) < TOTAL_COLLEGES

C8_Witness ==
  /\ pc = "returned"
  /\ Len(colleges) >= TOTAL_COLLEGES
  /\ Len(gapBatches) = 2
  /\ FetchesOf(TRUE, gapBatches[1]) # {}
  /\ FetchesOf(TRUE, gapBatches[2]) = {}

\* ------------------------------------------------------------------ C9
CeilDiv(a, b) == (a + b - 1) \div b

C9_CallBounds ==
  /\ Cardinality(InitialFetchPositions)
       <= MAX_RETRIES * CeilDiv(TOTAL_COLLEGES, BATCH_SIZE)
  /\ \A p \in GapFetchPositions :
       /\ [startRank |-> trace[p].startRank, endRank |-> trace[p].endRank]
            \in RangeOf(gapBatches)
       /\ Cardinality({q \in GapFetchPositions : trace[q] = trace[p]})
            <= MAX_RETRIES

\* C9: given that every upstream call settles and every sleep elapses, the
\* run returns, having made at most 3 * ceil(targetCount / 10) calls in the
\* initial pass and at most 3 calls for each gap window.
C9_TerminatesWithinBounds ==
  /\ <>(pc = "returned")
  /\ []C9_CallBounds

C9_Witness ==
  /\ pc = "returned"
  /\ Len(batches) = 3
  /\ Cardinality(InitialFetchPositions) = 9
  /\ Cardinality(GapFetchPositions) = 9

\* ----------------------------------------------------------------- C10
AllCallsFailed == \A p \in FetchPositions(trace) : Failed(p)

\* C10: the promise of fetchTopColleges never rejects, whatever the upstream
\* calls do, and a run all of whose calls failed returns the empty list.
C10_FailuresNeverEscape ==
  /\ pc # "rejected"
  /\ (pc = "returned" /\ AllCallsFailed => colleges = <<>>)

C10_Witness ==
  /\ pc = "returned"
  /\ AllCallsFailed
  /\ Cardinality(InitialFetchPositions) = MAX_RETRIES * Len(batches)
  /\ Cardinality(GapFetchPositions) = MAX_RETRIES * Len(gapBatches)
  /\ Len(gapBatches) = 3
  /\ colleges = <<>>


\* ----------------------------------------------------------------- C11
\* the upstream calls that have been started and have not settled
InFlight ==
  {p \in FetchPositions(trace) :
     ~(p + 1 <= Len(trace) /\ trace[p + 1].ev = "result")}

\* before position q of the trace the retry loop of an initial window had
\* ended: all its calls were settled, and one of them had returned records
\* or MAX_RETRIES of them had failed
ConcludedBefore(batch, q) ==
  LET ps == FetchesOf(FALSE, batch)
  IN /\ ps # {}
     /\ \A p \in ps : p + 1 < q
     /\ \/ \E p \in ps : Yielded(p)
        \/ Cardinality(ps) = MAX_RETRIES /\ \A p \in ps : Failed(p)

\* C11: at most one upstream call is in flight at any time (one exactly while
\* the run awaits fetchBatch), the first call for an initial window is issued
\* only after the retry loop of every earlier window has ended in success or
\* exhaustion, and a gap call is issued only after that holds of every
\* initial window.
C11_StrictlySequential ==
  /\ Cardinality(InFlight) <= 1
  /\ (pc \in {"fetchInitial", "fetchGap"} <=> Cardinality(InFlight) = 1)
  /\ \A p \in InFlight : p = Len(trace)
  /\ \A j \in 1..Len(batches) :
       \A q \in FetchesOf(FALSE, batches[j]) :
         \A i \in 1..(j - 1) : ConcludedBefore(batches[i], q)
  /\ \A q \in GapFetchPositions :
       \A i \in 1..Len(batches) : ConcludedBefore(batches[i], q)

C11_Witness ==
  /\ pc = "fetchGap"
  /\ Len(batches) = 3
  /\ Cardinality(InFlight) = 1
  /\ Cardinality(FetchesOf(FALSE, batches[1])) = MAX_RETRIES
  /\ Cardinality(FetchesOf(FALSE, batches[2])) = 1
  /\ Cardinality(FetchesOf(FALSE, batches[3])) = 2

\* ----------------------------------------------------------------- C16
\* the non-empty results of the calls settled among the first k events of
\* the trace, concatenated in the order the calls settled
RECURSIVE YieldsUpTo(_)
YieldsUpTo(k) ==
  IF k = 0 THEN <<>>
  ELSE YieldsUpTo(k - 1) \o
       (IF trace[k].ev = "result" /\ trace[k].n > 0
        THEN BatchResult(ReqNo(k - 1), trace[k].n)
        ELSE <<>>)

IsPrefix(s, t) == Len(s) <= Len(t) /\ SubSeq(t, 1, Len(s)) = s

\* C16: at every moment, and so when the run returns, the accumulator is the
\* concatenation in settling order of every non-empty batch result of both
\* passes; a step never removes or reorders records, so nothing is truncated
\* to targetCount.
C16_AccumulatorIsConcatenation ==
  /\ [](colleges = YieldsUpTo(Len(trace)))
  /\ [][IsPrefix(colleges, colleges')]_vars

C16_Witness ==
  /\ pc = "returned"
  /\ Len(colleges) > TOTAL_COLLEGES
  /\ GapFetchPositions # {}
  /\ \E p \in GapFetchPositions : Yielded(p)
  /\ \E p \in InitialFetchPositions : Yielded(p) /\ trace[p + 1].n = 1


\* ======================================================================
\* The fetch clients on their own: fetchBatch (lines 495-618) and the legacy
\* client fetchTopEngineeringColleges with normalizeColleges and sanitize
\* (lines 110-275), each applied to one upstream response.
\* ======================================================================

\* ------------------------------------------------------------- JSON values
\* Text is a sequence of characters; "a" stands for any non-blank character,
\* " " and "\t" are two of the characters the regular expression \s matches.
Chars == {"a", " ", "\t"}
IsWs(c) == c \in {" ", "\t", "\n"}
Texts == UNION {[1..k -> Chars] : k \in 0..MaxStrLen}

\* a field of a raw item: missing (or null), a string, or a value of another
\* type that is truthy (a number such as 5)
Absent == [kind |-> "absent", chars |-> <<>>]
Str(cs) == [kind |-> "string", chars |-> cs]
Num == [kind |-> "number", chars |-> <<>>]
\* the outcome of an expression that threw a TypeError
Thrown == [kind |-> "TypeError", chars |-> <<>>]

RawValues == {Absent, Num} \cup {Str(cs) : cs \in Texts}

\* JavaScript truthiness of a field value
Truthy(v) == v.kind = "number" \/ (v.kind = "string" /\ v.chars # <<>>)

\* interface CollegeInfo                      src/src/types/college.ts 1-13
Fields == {"name", "location", "type", "annualFee", "entranceExamRequired",
           "entranceExamDate", "course", "websiteLink", "eligibility",
           "approvedBy", "sourceUrl"}
OptionalFields == Fields \ {"name"}

\* ---------------------------------------------------------------- sanitize
\* text without its leading whitespace
RECURSIVE TrimStart(_)
TrimStart(cs) ==
  IF cs # <<>> /\ IsWs(Head(cs)) THEN TrimStart(Tail(cs)) ELSE cs

\* text without its trailing whitespace
RECURSIVE TrimEnd(_)
TrimEnd(cs) ==
  IF cs # <<>> /\ IsWs(cs[Len(cs)])
  THEN TrimEnd(SubSeq(cs, 1, Len(cs) - 1))
  ELSE cs

\* String.prototype.trim
Trim(cs) == TrimEnd(TrimStart(cs))

\* variant: the pattern is /\s\s/g, so only pairs of blanks are replaced
RECURSIVE Collapse_pairs(_)
Collapse_pairs(cs) ==
  IF Len(cs) >= 2 /\ IsWs(cs[1]) /\ IsWs(cs[2])
  THEN <<" ">> \o Collapse_pairs(SubSeq(cs, 3, Len(cs)))
  ELSE IF cs = <<>> THEN <<>>
  ELSE <<Head(cs)>> \o Collapse_pairs(Tail(cs))

\* value.replace(/\s+/g, " "): every maximal run of blanks becomes one space
RECURSIVE Collapse(_)
Collapse(cs) ==
  IF cs = <<>> THEN <<>>
  ELSE IF IsWs(Head(cs))
       THEN <<" ">> \o Collapse(TrimStart(Tail(cs)))
       ELSE <<Head(cs)>> \o Collapse(Tail(cs))

\* function sanitize(value?: string)                         lines 269-275
sanitize(value) ==
  IF ~Truthy(value) THEN Absent
  ELSE IF value.kind # "string" THEN Thrown
  ELSE LET trimmed == Trim(Collapse(value.chars))
       IN IF trimmed # <<>> THEN Str(trimmed) ELSE Absent

\* ------------------------------------------------------------- raw items
\* an element of the parsed array: null, or an object with some fields
AllAbsent == [f \in Fields |-> Absent]
NullItem == [null |-> TRUE, f |-> AllAbsent]
Obj(fs) == [null |-> FALSE, f |-> fs]

\* an object as upstream is asked to send it
GoodItem == Obj([AllAbsent EXCEPT !["name"] = Str(<<"a">>)])

\* the items explored: null, objects whose name takes every raw value, and
\* named objects one of whose other fields takes every raw value
RawItems ==
  {NullItem}
    \cup {Obj([AllAbsent EXCEPT !["name"] = v]) : v \in RawValues}
    \cup {Obj([AllAbsent EXCEPT !["name"] = Str(<<"a">>), ![g] = v]) :
            g \in OptionalFields, v \in RawValues}

ItemLists ==
  {<<>>} \cup {<<i>> : i \in RawItems}
         \cup {<<i, GoodItem>> : i \in RawItems}
         \cup {<<GoodItem, i>> : i \in RawItems}

\* ------------------------------------------------------ normalizeColleges
Ok(cs) == [threw |-> FALSE, error |-> "", colleges |-> cs]
Threw(e) == [threw |-> TRUE, error |-> e, colleges |-> <<>>]

\* the fields normalizeColleges copies besides name          lines 212-255
NormalizedFields == OptionalFields \ {"sourceUrl"}

\* one turn of the loop at lines 196-258: the records it pushes (none when
\* the entry is skipped), or a TypeError out of sanitize
NormalizeEntry(entry) ==
  LET name == entry.f["name"]
  IN IF entry.null \/ ~Truthy(name) \/ name.kind # "string" THEN Ok(<<>>)
     ELSE IF sanitize(name) = Absent THEN Ok(<<>>)
     ELSE IF \E g \in NormalizedFields : sanitize(entry.f[g]) = Thrown
          THEN Threw("TypeError")
          ELSE Ok(<< [g \in Fields |->
                        IF g = "name" THEN sanitize(name)
                        ELSE IF g \in NormalizedFields
                             THEN sanitize(entry.f[g])
                             ELSE Absent] >>)

\* function normalizeColleges(entries)                       lines 193-261
RECURSIVE normalizeColleges(_)
normalizeColleges(entries) ==
  IF entries = <<>> THEN Ok(<<>>)
  ELSE LET first == NormalizeEntry(Head(entries))
           rest == normalizeColleges(Tail(entries))
       IN IF first.threw THEN first
          ELSE IF rest.threw THEN rest
          ELSE Ok(first.colleges \o rest.colleges)

\* ---------------------------------------------------- upstream responses
\* content is what choices[0].message.content holds:
\*   "noChoices"  the body has no choices array
\*   "missing"    no first choice, no message, or empty content
\*   "notJson"    text that holds no JSON array
\*   "nonArray"   a JSON value that is not an array and holds none
\*   "wrapped"    a JSON array with other text around it
\*   "array"      a JSON array
Resp(kind, content, items) ==
  [kind |-> kind, content |-> content, items |-> items]

Responses ==
  {Resp("networkError", "none", <<>>), Resp("httpError", "none", <<>>)}
    \cup {Resp("ok", c, <<>>) :
            c \in {"noChoices", "missing", "notJson", "nonArray"}}
    \cup {Resp("ok", c, is) : c \in {"wrapped", "array"}, is \in ItemLists}

\* --------------------------------------------------------------- fetchBatch
UNKNOWN_NAME == <<"U", "n", "k", "n", "o", "w", "n", " ",
                  "I", "n", "s", "t", "i", "t", "u", "t", "e">>

\* parsedData.map((item) => ({ name: item.name || "Unknown Institute",
\*                             location: item.location, ... }))  lines 596-608
MapItem(item) ==
  [g \in Fields |->
     IF g = "name"
     THEN (IF Truthy(item.f["name"]) THEN item.f["name"] ELSE Str(UNKNOWN_NAME))
     ELSE item.f[g]]

\* variant: the catch block answers a failure with an empty list
BatchCatch_swallow(e) == Ok(<<>>)

\* catch (error) { ... throw ... }                           lines 611-617
BatchCatch(e) == Threw(e)

\* variant: the content is parsed as it came
ContentOrDefault_none(content) == content

\* response.data.choices[0]?.message?.content || "[]"             line 587:
\* a missing or empty content is read as the empty array
ContentOrDefault(content) == IF content = "missing" THEN "array" ELSE content

\* async function fetchBatch(...)                            lines 559-617
fetchBatch(resp) ==
  IF resp.kind = "networkError" THEN BatchCatch("network")
  ELSE IF resp.kind = "httpError" THEN BatchCatch("Perplexity API error")
  ELSE IF resp.content = "noChoices" THEN BatchCatch("TypeError")
  ELSE IF ContentOrDefault(resp.content) \in {"missing", "notJson", "wrapped"}
       THEN BatchCatch("Invalid JSON response from API")
  ELSE IF resp.content = "nonArray"
       THEN BatchCatch("API response is not an array")
  ELSE IF \E i \in DOMAIN resp.items : resp.items[i].null
       THEN BatchCatch("TypeError")
       ELSE Ok([i \in DOMAIN resp.items |-> MapItem(resp.items[i])])

\* ------------------------------------------------------- the legacy client
\* function parseColleges(content)                           lines 163-173
parseColleges(resp) ==
  IF resp.content \in {"wrapped", "array"}
  THEN normalizeColleges(resp.items)
  ELSE Ok(<<>>)

\* async function fetchTopEngineeringColleges()              lines 110-154
fetchTopEngineeringColleges(resp) ==
  IF resp.kind = "networkError" THEN Threw("network")
  ELSE IF resp.kind = "httpError" THEN Threw("Perplexity API error")
  ELSE IF resp.content \in {"noChoices", "missing"}
       THEN Threw("Perplexity returned an empty response.")
  ELSE LET parsed == parseColleges(resp)
       IN IF parsed.threw THEN parsed
          ELSE IF parsed.colleges = <<>>
               THEN Threw("Unable to parse college data from Perplexity response.")
               ELSE parsed

\* an output record handed back as a raw entry
AsEntries(cs) == [i \in DOMAIN cs |-> Obj(cs[i])]

\* ----------------------------------------------------------------- actions
ClientInit ==
  /\ response \in Responses
  /\ clientPc = "ready"
  /\ clientOut = "none"
  /\ clientAgain = "none"
  /\ RunIdle
  /\ SinkIdle
  /\ ExamIdle
  /\ MainIdle
  /\ EnvIdle

\* fetchBatch is called and upstream answers with response
CallFetchBatch ==
  /\ clientPc = "ready"
  /\ clientPc' = "fetchBatch"
  /\ clientOut' = fetchBatch(response)
  /\ UNCHANGED <<response, clientAgain, notClientVars>>

\* fetchTopEngineeringColleges is called and upstream answers with response
CallLegacyFetch ==
  /\ clientPc = "ready"
  /\ clientPc' = "legacy"
  /\ clientOut' = fetchTopEngineeringColleges(response)
  /\ UNCHANGED <<response, clientAgain, notClientVars>>

\* normalizeColleges is applied to the array the response holds
CallNormalize ==
  /\ clientPc = "ready"
  /\ response.content \in {"wrapped", "array"}
  /\ clientPc' = "normalized"
  /\ clientOut' = normalizeColleges(response.items)
  /\ UNCHANGED <<response, clientAgain, notClientVars>>

\* normalizeColleges is applied to what it returned
NormalizeAgain ==
  /\ clientPc = "normalized"
  /\ ~clientOut.threw
  /\ clientPc' = "renormalized"
  /\ clientAgain' = normalizeColleges(AsEntries(clientOut.colleges))
  /\ UNCHANGED <<response, clientOut, notClientVars>>

ClientNext ==
  \/ CallFetchBatch
  \/ CallLegacyFetch
  \/ CallNormalize
  \/ NormalizeAgain

ClientSpec == ClientInit /\ [][ClientNext]_vars


\* ----------------------------------------------------------------- C12
\* a raw name a record can be made from: a string that is not blank
UsableName(v) == v.kind = "string" /\ Trim(v.chars) # <<>>

\* the items of the response that carry a usable name
NamedItems ==
  {i \in DOMAIN response.items :
     ~response.items[i].null /\ UsableName(response.items[i].f["name"])}

ClientReturned ==
  clientPc \in {"fetchBatch", "legacy", "normalized"} /\ ~clientOut.threw

\* C12: every record a fetch client returns has a name that is a non-blank
\* string, and the items whose name is missing, empty or blank are dropped:
\* the result has one record for each item with a usable name and no other.
C12_NamesUsable ==
  ClientReturned =>
    /\ \A i \in DOMAIN clientOut.colleges :
         UsableName(clientOut.colleges[i]["name"])
    /\ Len(clientOut.colleges) = Cardinality(NamedItems)

\* ----------------------------------------------------------------- C13
\* a non-empty text with whitespace collapsed and trimmed
Normalized(cs) ==
  /\ cs # <<>>
  /\ \A i \in DOMAIN cs : cs[i] # "\t"
  /\ cs[1] # " "
  /\ cs[Len(cs)] # " "
  /\ \A i \in 1..(Len(cs) - 1) : ~(cs[i] = " " /\ cs[i + 1] = " ")

\* C13: in every record a fetch client returns, each optional field is
\* absent or a non-empty string with whitespace collapsed and trimmed.
C13_OptionalFieldsNormalized ==
  ClientReturned =>
    \A i \in DOMAIN clientOut.colleges :
      \A g \in OptionalFields :
        LET v == clientOut.colleges[i][g]
        IN v = Absent \/ (v.kind = "string" /\ Normalized(v.chars))

\* ----------------------------------------------------------------- C14
\* C14: normalizeColleges applied to its own output returns that output, and
\* sanitize applied to its own result returns that result, for every raw
\* item of the response.
C14_SanitizeIdempotent ==
  /\ clientPc = "renormalized" => clientAgain = clientOut
  /\ \A i \in DOMAIN response.items :
       \A g \in Fields :
         LET once == sanitize(response.items[i].f[g])
         IN once # Thrown => sanitize(once) = once

C14_Witness ==
  /\ clientPc = "renormalized"
  /\ Len(clientOut.colleges) = 2
  /\ \E i \in DOMAIN response.items :
       /\ Truthy(response.items[i].f["location"])
       /\ response.items[i].f["location"].kind = "string"
       /\ Len(response.items[i].f["location"].chars) = MaxStrLen
       /\ clientOut.colleges[i]["location"] # response.items[i].f["location"]
       /\ clientOut.colleges[i]["location"] # Absent

\* ----------------------------------------------------------------- C15
\* C15 as stated: fetchBatch throws when the call fails or the content is not
\* a JSON array, and returns a list whenever the content is a JSON array.
C15_ThrowsUnlessArray ==
  clientPc = "fetchBatch" =>
    (clientOut.threw <=> ~(response.kind = "ok" /\ response.content = "array"))

\* C15 (amended): fetchBatch throws when the call fails at the network or
\* HTTP layer, when the body has no choices array, when the content is
\* present but is not a JSON array, and when the array holds a null item; it
\* returns the empty list when the content is missing or empty; it returns
\* one record per item, however few, when the content is a JSON array of
\* non-null items.
C15_ThrowsUnlessArrayOrNoContent ==
  clientPc = "fetchBatch" =>
    /\ (response.kind # "ok" => clientOut.threw)
    /\ (response.kind = "ok"
          /\ response.content \in {"noChoices", "notJson", "nonArray", "wrapped"}
          => clientOut.threw)
    /\ (response.kind = "ok" /\ response.content = "missing"
          => ~clientOut.threw /\ clientOut.colleges = <<>>)
    /\ (response.kind = "ok" /\ response.content = "array" =>
          IF \E i \in DOMAIN response.items : response.items[i].null
          THEN clientOut.threw
          ELSE ~clientOut.threw
                 /\ Len(clientOut.colleges) = Len(response.items))

C15_Witness ==
  /\ clientPc = "fetchBatch"
  /\ response.kind = "ok"
  /\ response.content = "missing"
  /\ ~clientOut.threw
  /\ clientOut.colleges = <<>>


\* ===================================================== the sheets writer
\* A text is a sequence of tokens: a separator, a blank, the word "and" in
\* either case, or any other run of word characters.  Adjacent word tokens
\* form one word.
Separators == {",", "/", ";", "&", "|"}
IsAnd(t) == t \in {"and", "AND"}
IsWordTok(t) == ~IsWs(t) /\ t \notin Separators

Max(a, b) == IF a > b THEN a ELSE b

\* \band\b matches at i: the word "and" with no word character on either side
AndMatches(cs, i) ==
  /\ IsAnd(cs[i])
  /\ (i = 1 \/ ~IsWordTok(cs[i - 1]))
  /\ (i = Len(cs) \/ ~IsWordTok(cs[i + 1]))

\* variant: "and" splits wherever it occurs, inside a word too
IsSplitAt_anyAnd(cs, i) == cs[i] \in Separators \/ IsAnd(cs[i])

\* /(?:,|\/|;|&|\||\band\b)/i matches at i                part_002 146
IsSplitAt(cs, i) == cs[i] \in Separators \/ AndMatches(cs, i)

\* value.split(...)                                       part_002 146
RECURSIVE Split(_)
Split(cs) ==
  LET hits == {i \in DOMAIN cs : IsSplitAt(cs, i)}
  IN IF hits = {} THEN <<cs>>
     ELSE LET i == CHOOSE h \in hits : \A k \in hits : h <= k
          IN <<SubSeq(cs, 1, i - 1)>> \o Split(SubSeq(cs, i + 1, Len(cs)))

\* .map((part) => part.trim()).filter((part) => part.length > 0)
RECURSIVE TrimmedNonEmpty(_)
TrimmedNonEmpty(parts) ==
  IF parts = <<>> THEN <<>>
  ELSE LET part == Trim(Head(parts))
       IN (IF part # <<>> THEN <<part>> ELSE <<>>)
            \o TrimmedNonEmpty(Tail(parts))

\* function splitMultiValue(value?: string)               part_002 140-149
splitMultiValue(value) ==
  IF ~Truthy(value) THEN <<>> ELSE TrimmedNonEmpty(Split(value.chars))

\* function padList(items, length, filler)                part_002 151-161
padList(items, length, filler) ==
  IF Len(items) >= length THEN items
  ELSE items \o [i \in 1..(length - Len(items)) |-> filler]

\* items.join('\n')
RECURSIVE Join(_)
Join(items) ==
  IF items = <<>> THEN <<>>
  ELSE IF Len(items) = 1 THEN Head(items)
  ELSE Head(items) \o <<"\n">> \o Join(Tail(items))

\* function formatEntranceExamFields(examNames?, examDates?)
\*                                                        part_002 108-138
formatEntranceExamFields(names0, dates0) ==
  LET nameParts == splitMultiValue(names0)
      dateParts == splitMultiValue(dates0)
      lineCount == Max(Len(nameParts), Len(dateParts))
      paddedNames == padList(nameParts, lineCount, <<>>)
      paddedDates == padList(dateParts, lineCount,
                             IF dateParts = <<>> THEN <<>>
                             ELSE dateParts[Len(dateParts)])
      names == Trim(Join(paddedNames))
      dates == Trim(Join(paddedDates))
  IN IF Len(nameParts) <= 1 /\ Len(dateParts) <= 1
     THEN [names |-> Absent, dates |-> Absent]
     ELSE IF lineCount = 0
     THEN [names |-> Absent, dates |-> Absent]
     ELSE [names |-> IF names # <<>> THEN Str(names) ELSE Absent,
           dates |-> IF dates # <<>> THEN Str(dates) ELSE Absent]

\* variant: an absent value is passed on as it is
Coalesce_keep(v, w) == v

\* v ?? w
Coalesce(v, w) == IF v = Absent THEN w ELSE v

\* the two exam cells of a row of the current writer      part_002 33-44
ExamCells(names0, dates0) ==
  LET formatted == formatEntranceExamFields(names0, dates0)
  IN << Coalesce(formatted.names, Coalesce(names0, Str(<<>>))),
        Coalesce(formatted.dates, Coalesce(dates0, Str(<<>>))) >>

\* const headers                        part_002 8-20, part_001 27-38
headers(variant) ==
  LET legacy == << Str(<<"College Name">>), Str(<<"Location">>),
                   Str(<<"Type">>), Str(<<"Annual Fee">>),
                   Str(<<"Entrance Exam Required">>),
                   Str(<<"Entrance Exam Date (This Year)">>),
                   Str(<<"Course">>), Str(<<"Website Link">>),
                   Str(<<"Eligibility">>), Str(<<"Approved By">>) >>
  IN IF variant = "current" THEN Append(legacy, Str(<<"Source URL">>))
     ELSE legacy

\* the row of one record               part_002 32-51, part_001 50-61
Row(variant, college) ==
  LET cell(g) == Coalesce(college[g], Str(<<>>))
      exams == IF variant = "current"
               THEN ExamCells(college["entranceExamRequired"],
                              college["entranceExamDate"])
               ELSE <<cell("entranceExamRequired"), cell("entranceExamDate")>>
      legacy == <<cell("name"), cell("location"), cell("type"),
                  cell("annualFee")>>
                  \o exams
                  \o <<cell("course"), cell("websiteLink"),
                       cell("eligibility"), cell("approvedBy")>>
  IN IF variant = "current" THEN Append(legacy, cell("sourceUrl"))
     ELSE legacy

\* const values = [[...headers], ...colleges.map(...)]
\*                                      part_002 30-52, part_001 48-62
SheetValues(variant, cs) ==
  <<headers(variant)>> \o [i \in DOMAIN cs |-> Row(variant, cs[i])]

\* const range = `${tabName}!A1:K${colleges.length + 1}`
\*                                      part_002 28, part_001 46
Range(variant, tab, cs) ==
  [tab |-> tab,
   lastColumn |-> IF variant = "current" THEN "K" ELSE "J",
   lastRow |-> Len(cs) + 1]

\* variant: the tab is created without looking at the titles
TabMissing_always(tabs, tab) == TRUE

\* if (!existingTabs.includes(tabName))                   part_002 71
TabMissing(tabs, tab) == tab \notin tabs

\* ------------------------------------------------------ records explored
TabTitles == {"Engineering", "Sheet1"}

\* a record with every field set, each to a text of its own
Plain == [g \in Fields |-> Str(<<g>>)]
\* a record with nothing but a name
NameOnly == [AllAbsent EXCEPT !["name"] = Str(<<"name">>)]
\* two exam names, one date
TwoExams == [Plain EXCEPT !["entranceExamRequired"] = Str(<<"JEE", ",", "CET">>),
                          !["entranceExamDate"] = Str(<<"May">>)]
\* one exam name, two dates
TwoDates == [NameOnly EXCEPT !["entranceExamRequired"] = Str(<<"JEE">>),
                             !["entranceExamDate"] = Str(<<"May", "/", "June">>)]

SinkRecords ==
  {Plain, NameOnly, TwoExams, TwoDates}
    \cup {[Plain EXCEPT ![g] = Absent] : g \in OptionalFields}

RecordLists == UNION {[1..k -> SinkRecords] : k \in 0..MaxRecords}

\* ------------------------------------------------- writeCollegesToSheet
\* sheets.spreadsheets.values.update({ range, requestBody: { values } })
\*                                      part_002 54-59, part_001 64-69
IssueWrite(log) ==
  /\ sinkPc' = "write"
  /\ sinkLog' = Append(log, "update")
  /\ written' = [range |-> Range(sinkVariant, tabName, sinkInput),
                 values |-> SheetValues(sinkVariant, sinkInput)]

\* writeCollegesToSheet has been called and awaits getSheetsClient()
SinkInit ==
  /\ sinkVariant \in {"current", "legacy"}
  /\ sinkPc = "auth"
  /\ sinkInput \in RecordLists
  /\ tabName \in TabTitles
  /\ sheetTabs \in SUBSET TabTitles
  /\ sinkLog = <<>>
  /\ written = "none"
  /\ RunIdle
  /\ ClientIdle
  /\ ExamIdle
  /\ MainIdle
  /\ EnvIdle

\* getSheetsClient resolves; ensureSheetTabExists asks for the metadata
GetSheetsClientResolves ==
  /\ sinkPc = "auth"
  /\ sinkPc' = "lookup"
  /\ sinkLog' = Append(sinkLog, "get")
  /\ UNCHANGED <<sinkVariant, sinkInput, tabName, sheetTabs, written>>
  /\ UNCHANGED notSinkVars

\* auth.getClient() rejects: writeCollegesToSheet rejects at line 23
GetSheetsClientRejects ==
  /\ sinkPc = "auth"
  /\ sinkPc' = "failed"
  /\ UNCHANGED <<sinkVariant, sinkInput, tabName, sheetTabs, sinkLog, written>>
  /\ UNCHANGED notSinkVars

\* spreadsheets.get resolves with the titles               part_002 65-87
LookupResolves ==
  /\ sinkPc = "lookup"
  /\ IF TabMissing(sheetTabs, tabName)
     THEN /\ sinkPc' = "create"
          /\ sinkLog' = sinkLog \o <<"getOk", "addSheet">>
          /\ UNCHANGED written
     ELSE IssueWrite(Append(sinkLog, "getOk"))
  /\ UNCHANGED <<sinkVariant, sinkInput, tabName, sheetTabs>>
  /\ UNCHANGED notSinkVars

\* spreadsheets.get rejects: the catch block logs it      part_002 88-91
LookupRejects ==
  /\ sinkPc = "lookup"
  /\ IssueWrite(Append(sinkLog, "getFail"))
  /\ UNCHANGED <<sinkVariant, sinkInput, tabName, sheetTabs>>
  /\ UNCHANGED notSinkVars

\* spreadsheets.batchUpdate resolves: the tab exists now   part_002 73-86
CreateResolves ==
  /\ sinkPc = "create"
  /\ sheetTabs' = sheetTabs \cup {tabName}
  /\ IssueWrite(Append(sinkLog, "addSheetOk"))
  /\ UNCHANGED <<sinkVariant, sinkInput, tabName>>
  /\ UNCHANGED notSinkVars

\* spreadsheets.batchUpdate rejects: the catch block logs it
CreateRejects ==
  /\ sinkPc = "create"
  /\ IssueWrite(Append(sinkLog, "addSheetFail"))
  /\ UNCHANGED <<sinkVariant, sinkInput, tabName, sheetTabs>>
  /\ UNCHANGED notSinkVars

\* values.update resolves: writeCollegesToSheet resolves
WriteResolves ==
  /\ sinkPc = "write"
  /\ sinkPc' = "done"
  /\ sinkLog' = Append(sinkLog, "updateOk")
  /\ UNCHANGED <<sinkVariant, sinkInput, tabName, sheetTabs, written>>
  /\ UNCHANGED notSinkVars

\* values.update rejects: writeCollegesToSheet rejects
WriteRejects ==
  /\ sinkPc = "write"
  /\ sinkPc' = "failed"
  /\ sinkLog' = Append(sinkLog, "updateFail")
  /\ UNCHANGED <<sinkVariant, sinkInput, tabName, sheetTabs, written>>
  /\ UNCHANGED notSinkVars

SinkNext ==
  \/ GetSheetsClientResolves
  \/ GetSheetsClientRejects
  \/ LookupResolves
  \/ LookupRejects
  \/ CreateResolves
  \/ CreateRejects
  \/ WriteResolves
  \/ WriteRejects

SinkSpec == SinkInit /\ [][SinkNext]_vars


\* ----------------------------------------------------------------- C17
InLog(e) == \E i \in DOMAIN sinkLog : sinkLog[i] = e

\* the column order the rows are said to follow
ColumnOrder ==
  <<"name", "location", "type", "annualFee", "entranceExamRequired",
    "entranceExamDate", "course", "websiteLink", "eligibility", "approvedBy",
    "sourceUrl">>

ExamColumns == {"entranceExamRequired", "entranceExamDate"}

\* row holds the fields of college in the order of columns: an absent field
\* as an empty cell, a field other than the exam fields as it is
RowFollows(row, college, columns) ==
  /\ Len(row) = Len(columns)
  /\ \A k \in DOMAIN columns :
       LET v == college[columns[k]]
       IN /\ v = Absent => row[k] = Str(<<>>)
          /\ v # Absent /\ columns[k] \notin ExamColumns => row[k] = v
          /\ row[k] # Absent

\* header row, then one row per record in input order, all of one width
SheetFollows(columns) ==
  /\ Len(written.values) = Len(sinkInput) + 1
  /\ written.range.lastRow = Len(sinkInput) + 1
  /\ written.range.tab = tabName
  /\ written.values[1] = headers(sinkVariant)
  /\ \A r \in DOMAIN written.values :
       Len(written.values[r]) = Len(written.values[1])
  /\ \A i \in DOMAIN sinkInput :
       RowFollows(written.values[i + 1], sinkInput[i], columns)

\* C17 as stated: the update request of writeCollegesToSheet holds the header
\* row and one row per record in input order, records.length + 1 rows in
\* all, each as wide as the header, with the eleven columns name ... approver,
\* source URL, an absent field being an empty cell.
C17_ElevenColumns ==
  InLog("update") => SheetFollows(ColumnOrder)

\* the columns of each writer: the legacy one has no source URL
ColumnsOf(variant) ==
  IF variant = "current" THEN ColumnOrder ELSE SubSeq(ColumnOrder, 1, 10)

\* C17 (amended): as above, but the source URL column exists in the current
\* writer only; the legacy writer writes the ten columns name ... approver,
\* and the range ends at column K and J respectively.
C17_ColumnsPerWriter ==
  InLog("update") =>
    /\ SheetFollows(ColumnsOf(sinkVariant))
    /\ written.range.lastColumn =
         (IF Len(written.values[1]) = 11 THEN "K" ELSE "J")

C17_Witness ==
  /\ sinkPc = "done"
  /\ sinkVariant = "legacy"
  /\ sinkInput = <<NameOnly, TwoExams>>
  /\ Len(written.values) = 3
  /\ Len(written.values[2]) = 10

\* ----------------------------------------------------------------- C19

\* the destination tab was not among the tabs when the lookup was made
TabAbsentAtLookup == tabName \notin sheetTabs \/ InLog("addSheetOk")

\* the update request follows the end of the lookup-or-create step
WriteAfterEnsure ==
  \A i \in DOMAIN sinkLog :
    sinkLog[i] = "update" =>
      /\ i > 2
      /\ sinkLog[1] = "get"
      /\ sinkLog[2] \in {"getOk", "getFail"}
      /\ \A j \in 1..(i - 1) :
           sinkLog[j] = "addSheet" =>
             j + 1 < i /\ sinkLog[j + 1] \in {"addSheetOk", "addSheetFail"}

\* C19 as stated: once the write is issued, a creation request has been
\* issued exactly when the tab was not among the existing tabs, and the write
\* follows the end of the lookup-or-create step.
C19_CreatedIffAbsent ==
  /\ WriteAfterEnsure
  /\ InLog("update") => (InLog("addSheet") <=> TabAbsentAtLookup)

\* C19 (amended): a creation request is issued exactly when the lookup
\* succeeded and the tab was not among the titles it returned; when the
\* lookup fails no creation is requested, whether the tab exists or not; the
\* write is issued after the lookup-or-create step ended, failed or not.
C19_CreatedIffLookupFoundNoTab ==
  /\ WriteAfterEnsure
  /\ InLog("update") =>
       (InLog("addSheet") <=> InLog("getOk") /\ TabAbsentAtLookup)
  /\ InLog("getFail") => ~InLog("addSheet")
  /\ (InLog("getFail") \/ InLog("addSheetFail")) /\ sinkPc # "lookup"
       /\ sinkPc # "create" => InLog("update")

C19_Witness ==
  /\ sinkPc = "done"
  /\ InLog("getFail")
  /\ tabName \notin sheetTabs
  /\ ~InLog("addSheet")

\* ================================================ the exam cells alone
ExamTokens == {"JEE", "and", ",", "/", " "}
ExamInputs ==
  {Absent} \cup {Str(cs) : cs \in UNION {[1..k -> ExamTokens] : k \in 0..MaxExamLen}}

ExamInit ==
  /\ examNames \in ExamInputs
  /\ examDates \in ExamInputs
  /\ examPc = "ready"
  /\ examCells = "none"
  /\ RunIdle
  /\ ClientIdle
  /\ SinkIdle
  /\ MainIdle
  /\ EnvIdle

\* the writer computes the two exam cells of a row         part_002 33-44
FormatExamCells ==
  /\ examPc = "ready"
  /\ examPc' = "formatted"
  /\ examCells' = ExamCells(examNames, examDates)
  /\ UNCHANGED <<examNames, examDates, runVars, clientVars, sinkVars, mainVars,
                 envVars>>

ExamNext == FormatExamCells

ExamSpec == ExamInit /\ [][ExamNext]_vars

\* ----------------------------------------------------------------- C18
LineCount(cs) == Cardinality({i \in DOMAIN cs : cs[i] = "\n"}) + 1

\* C18: when the exam names or the exam dates hold more than one value, the
\* two cells have the same number of lines, and when there are fewer dates
\* than names the dates cell lists the dates followed by the last date
\* repeated, one line per name.
C18_ExamCellsAligned ==
  examPc = "formatted" =>
    LET n == splitMultiValue(examNames)
        d == splitMultiValue(examDates)
    IN Len(n) > 1 \/ Len(d) > 1 =>
         /\ LineCount(examCells[1].chars) = LineCount(examCells[2].chars)
         /\ (Len(d) >= 1 /\ Len(d) < Len(n) =>
               /\ examCells[1] = Str(Join(n))
               /\ examCells[2] =
                    Str(Join(d \o [i \in 1..(Len(n) - Len(d)) |-> d[Len(d)]])))

\* ================================================ the legacy entry point
\* variant: the handler only logs
Catch_logOnly(code) == code

\* process.exitCode = 1                          fetchColleges.ts 16-19
Catch(code) == 1

\* upstream answers whose items are null, nameless or named
MainResponses ==
  {r \in Responses :
     \A i \in DOMAIN r.items :
       r.items[i] \in {NullItem, GoodItem, Obj(AllAbsent)}}

\* main() has been called and awaits fetchTopEngineeringColleges()
MainInit ==
  /\ mainPc = "fetching"
  /\ exitCode = 0
  /\ response \in MainResponses
  /\ clientPc = "idle"
  /\ clientOut = "none"
  /\ clientAgain = "none"
  /\ sinkVariant = "legacy"
  /\ sinkPc = "idle"
  /\ sinkInput = <<>>
  /\ tabName \in TabTitles
  /\ sheetTabs \in SUBSET TabTitles
  /\ sinkLog = <<>>
  /\ written = "none"
  /\ RunIdle
  /\ ExamIdle
  /\ EnvIdle

\* the fetch resolves; main calls writeCollegesToSheet(colleges)   line 8-11
MainFetchResolves ==
  /\ mainPc = "fetching"
  /\ ~fetchTopEngineeringColleges(response).threw
  /\ mainPc' = "writing"
  /\ sinkInput' = fetchTopEngineeringColleges(response).colleges
  /\ sinkPc' = "auth"
  /\ UNCHANGED <<exitCode, sinkVariant, tabName, sheetTabs, sinkLog, written>>
  /\ UNCHANGED <<runVars, clientVars, examVars, envVars>>

\* the fetch rejects; main rejects and the handler runs       lines 8, 16-19
MainFetchRejects ==
  /\ mainPc = "fetching"
  /\ fetchTopEngineeringColleges(response).threw
  /\ mainPc' = "exited"
  /\ exitCode' = Catch(exitCode)
  /\ UNCHANGED <<runVars, clientVars, sinkVars, examVars, envVars>>

\* the write resolves; main resolves                          lines 11-14
MainWriteResolves ==
  /\ mainPc = "writing"
  /\ sinkPc = "done"
  /\ mainPc' = "exited"
  /\ UNCHANGED <<exitCode, runVars, clientVars, sinkVars, examVars, envVars>>

\* the write rejects; main rejects and the handler runs      lines 11, 16-19
MainWriteRejects ==
  /\ mainPc = "writing"
  /\ sinkPc = "failed"
  /\ mainPc' = "exited"
  /\ exitCode' = Catch(exitCode)
  /\ UNCHANGED <<runVars, clientVars, sinkVars, examVars, envVars>>

MainNext ==
  \/ MainFetchResolves
  \/ MainFetchRejects
  \/ MainWriteResolves
  \/ MainWriteRejects
  \/ SinkNext

MainSpec == MainInit /\ [][MainNext]_vars

\* ----------------------------------------------------------------- C20
FetchFailed == fetchTopEngineeringColleges(response).threw
WriteInvoked == sinkPc # "idle"

\* C20: once the legacy entry point has ended, the exit code is 1 if the
\* fetch or the sheet write rejected and 0 if both resolved; it is 0 until
\* then; the writer is invoked only after the fetch resolved, so a failed
\* fetch leaves the writer uncalled and the spreadsheet service unasked.
C20_ExitCodeAndWriteOrder ==
  /\ mainPc = "exited" =>
       (exitCode = 1 <=> FetchFailed \/ sinkPc = "failed")
  /\ mainPc = "exited" /\ exitCode # 1 => exitCode = 0 /\ sinkPc = "done"
  /\ mainPc # "exited" => exitCode = 0
  /\ WriteInvoked => ~FetchFailed /\ mainPc # "fetching"
  /\ FetchFailed => sinkLog = <<>>

C20_Witness ==
  /\ mainPc = "exited"
  /\ exitCode = 1
  /\ ~FetchFailed
  /\ InLog("updateFail")
  /\ Len(sinkInput) = 2


\* ============================================ the retrieval run, continued
\* ----------------------------------------------------------------- C22
\* inter-window delays that have elapsed
Delays == {q \in DOMAIN trace : trace[q] = SleepEv(BATCH_DELAY_MS)}

\* windows whose retry loop and following delay are both over
WindowsLeft ==
  IF pc = "start" THEN 0
  ELSE IF InInitialPass THEN batchIdx - 1
  ELSE IF InGapPass THEN Len(batches) + batchIdx - 1
  ELSE Len(batches) + Len(gapBatches)

\* the upstream call made last before the one at position p, 0 if none
PrevFetch(p) ==
  LET before == {q \in FetchPositions(trace) : q < p}
  IN IF before = {} THEN 0
     ELSE CHOOSE q \in before : \A r \in before : r <= q

\* C22: one 1000 ms delay has elapsed for every window left behind, whatever
\* its outcome, in both passes; each delay starts right where a retry loop
\* ends (after a settled call, or after the delay of the window before when
\* the loop made no call); and between the last call of one window and the
\* first call of the next there is that one delay and nothing else.
C22_OneDelayPerWindow ==
  /\ pc # "rejected" => Cardinality(Delays) = WindowsLeft
  /\ \A q \in Delays :
       q > 1 /\ (trace[q - 1].ev = "result" \/ (q - 1) \in Delays)
  /\ \A p \in FetchPositions(trace) :
       LET q == PrevFetch(p)
       IN q # 0 =>
            IF trace[q] = trace[p]
            THEN \A r \in q..p : r \notin Delays
            ELSE p = q + 3 /\ (q + 2) \in Delays

C22_Witness ==
  /\ pc = "returned"
  /\ Cardinality(Delays) = 5
  /\ \E q \in Delays : (q + 1) \in Delays
  /\ \E p \in FetchPositions(trace) : trace[p].gap /\ Yielded(p)
  /\ \E p \in FetchPositions(trace) : ~trace[p].gap /\ Yielded(p)


\* ----------------------------------------------------------------- C23
\* all three calls for the window were made and failed
Exhausted(gap, batch) ==
  LET ps == FetchesOf(gap, batch)
  IN Cardinality(ps) = MAX_RETRIES /\ \A p \in ps : Failed(p)

\* the step in which an awaited call settles with no record or an error
FailedAttemptStep ==
  /\ pc \in {"fetchInitial", "fetchGap"}
  /\ Len(trace') > Len(trace)
  /\ trace'[Len(trace) + 1] = ResultEv(0)

C23_ExhaustedStaysUnconfirmed ==
  /\ pc # "rejected"
  /\ \A i \in 1..Len(batches) :
       Exhausted(FALSE, batches[i]) =>
         /\ InInitialPass => RanksOf(batches[i]) \cap fetchedRanks = {}
         /\ RanksOf(batches[i]) \cap fetchedRanks # {} =>
              \E p \in FetchPositions(trace) : trace[p].gap /\ Yielded(p)
         /\ i < Len(batches) /\ (InitialPassOver \/ batchIdx > i) =>
              FetchesOf(FALSE, batches[i + 1]) # {}
  /\ \A i \in 1..Len(gapBatches) :
       Exhausted(TRUE, gapBatches[i]) =>
         /\ RanksOf(gapBatches[i]) \cap fetchedRanks = {}
         /\ i < Len(gapBatches) /\ (pc = "returned" \/ batchIdx > i) =>
              FetchesOf(TRUE, gapBatches[i + 1]) # {}

\* C23: a failed attempt (empty result or thrown error), in either pass,
\* leaves the accumulator and the confirmed-rank set as they were; the ranks
\* of a window that exhausted its three attempts stay unconfirmed (in the
\* initial pass until a gap call yields, in the gap pass for good), the run
\* is not rejected, and the next window is requested.
C23_FailedAttemptChangesNothing ==
  /\ []C23_ExhaustedStaysUnconfirmed
  /\ [][FailedAttemptStep =>
          colleges' = colleges /\ fetchedRanks' = fetchedRanks]_vars

C23_Witness ==
  /\ pc = "returned"
  /\ Len(colleges) = 1
  /\ \E i \in 1..(Len(batches) - 1) :
       /\ Exhausted(FALSE, batches[i])
       /\ Exhausted(TRUE, batches[i])
       /\ RanksOf(batches[i]) \cap fetchedRanks = {}
       /\ \E p \in FetchesOf(FALSE, batches[i + 1]) : Yielded(p)


\* ----------------------------------------------------------------- C24
\* the upstream calls whose requested range holds rank r
RequestsCovering(r) ==
  {p \in FetchPositions(trace) :
     trace[p].startRank <= r /\ r <= trace[p].endRank}

\* C24: once a call of the initial pass has yielded for a window, no later
\* call of the run asks for any rank of that window; and every rank is
\* covered by at most 3 calls of the initial pass and at most 3 calls of the
\* gap pass, 6 in all.
C24_ConfirmedNeverRequestedAgain ==
  /\ \A i \in 1..Len(batches) :
       \A p \in FetchesOf(FALSE, batches[i]) :
         Yielded(p) =>
           \A q \in FetchPositions(trace) :
             q > p =>
               (trace[q].startRank .. trace[q].endRank)
                 \cap RanksOf(batches[i]) = {}
  /\ \A r \in 1..TOTAL_COLLEGES :
       /\ Cardinality(RequestsCovering(r)) <= 2 * MAX_RETRIES
       /\ Cardinality({p \in RequestsCovering(r) : trace[p].gap})
            <= MAX_RETRIES
       /\ Cardinality({p \in RequestsCovering(r) : ~trace[p].gap})
            <= MAX_RETRIES

C24_Witness ==
  /\ pc = "returned"
  /\ Len(batches) = 3
  /\ \E p \in FetchesOf(FALSE, batches[1]) : Yielded(p)
  /\ Cardinality(RequestsCovering(1)) = 1
  /\ Cardinality(RequestsCovering(11)) = 2 * MAX_RETRIES
  /\ \E p \in FetchesOf(TRUE, batches[3]) : Yielded(p)


\* ----------------------------------------------------------------- C25
\* the initial windows that exhausted their retries, in rank order
FailedWindows == SelectSeq(batches, LAMBDA b : Exhausted(FALSE, b))

\* C25: once the initial pass is over, the gap batches are either none (no
\* window failed, or the initial pass alone reached the target) or exactly
\* the initial windows that exhausted their retries, in rank order; then
\* every missing rank lies in exactly one gap batch.
C25_GapBatchesAreFailedWindows ==
  InitialPassOver =>
    /\ gapBatches \in {<<>>, FailedWindows}
    /\ gapBatches = <<>> =>
         FailedWindows = <<>> \/ InitialYield >= TOTAL_COLLEGES
    /\ gapBatches # <<>> =>
         /\ InitialYield < TOTAL_COLLEGES
         /\ Len(gapBatches) =
              Cardinality({i \in 1..Len(batches) : Exhausted(FALSE, batches[i])})
         /\ \A r \in RangeOf(missingRanks) :
              Cardinality({i \in 1..Len(gapBatches) :
                             r \in RanksOf(gapBatches[i])}) = 1

C25_Witness ==
  /\ pc = "returned"
  /\ TOTAL_COLLEGES = 25
  /\ gapBatches = <<batches[1], batches[3]>>
  /\ Len(missingRanks) = 15


\* ----------------------------------------------------------------- C26
\* rank r was given up: its window failed three times in the initial pass
\* and then, as a gap batch, either failed three times more or was not
\* requested at all, the accumulator holding the target count already
GivenUp(r) ==
  \E i \in 1..Len(batches) :
    /\ r \in RanksOf(batches[i])
    /\ Exhausted(FALSE, batches[i])
    /\ \/ Exhausted(TRUE, batches[i])
       \/ FetchesOf(TRUE, batches[i]) = {} /\ Len(colleges) >= TOTAL_COLLEGES

C26_ReturnedCoverage ==
  /\ pc = "returned" =>
       \A r \in 1..TOTAL_COLLEGES :
         (r \in fetchedRanks /\ ~GivenUp(r)) \/ (r \notin fetchedRanks /\ GivenUp(r))
  /\ \A p \in FetchPositions(trace) :
       trace[p].gap =>
         /\ \A q \in FetchPositions(trace) : q > p => trace[q].gap
         /\ Cardinality(FetchesOf(TRUE, [startRank |-> trace[p].startRank,
                                         endRank |-> trace[p].endRank]))
              <= MAX_RETRIES

\* C26: there is one gap pass.  When fetchTopColleges has returned, every
\* rank of [1, count] is either confirmed or given up; calls of the gap pass
\* all follow the calls of the initial pass, at most three per gap batch;
\* and nothing is done after the return.
C26_SingleGapPass ==
  /\ []C26_ReturnedCoverage
  /\ [][pc # "returned"]_vars

C26_Witness ==
  /\ pc = "returned"
  /\ Len(batches) = 3
  /\ \E p \in FetchesOf(FALSE, batches[1]) : Yielded(p)
  /\ Exhausted(FALSE, batches[2])
  /\ Exhausted(TRUE, batches[2])
  /\ GivenUp(11)
  /\ 11 \notin fetchedRanks
  /\ \E p \in FetchesOf(TRUE, batches[3]) : Yielded(p)


\* =================================== the retrieval run wired to fetchBatch
\* Each awaited call is answered by upstream with some response, and what
\* the run sees is what fetchBatch makes of it.
UpstreamResponses ==
  {Resp("networkError", "none", <<>>),
   Resp("ok", "missing", <<>>),
   Resp("ok", "notJson", <<>>),
   Resp("ok", "array", <<>>),
   Resp("ok", "array", <<GoodItem>>),
   Resp("ok", "array", <<GoodItem, GoodItem>>)}

UpstreamInit ==
  /\ TOTAL_COLLEGES \in 1..MaxTarget
  /\ pc = "start"
  /\ batches = <<>>
  /\ gapBatches = <<>>
  /\ missingRanks = <<>>
  /\ batchIdx = 0
  /\ success = FALSE
  /\ attempt = 0
  /\ colleges = <<>>
  /\ fetchedRanks = {}
  /\ trace = <<>>
  /\ response = Resp("none", "none", <<>>)
  /\ clientPc = "idle"
  /\ clientOut = "none"
  /\ clientAgain = "none"
  /\ SinkIdle
  /\ ExamIdle
  /\ MainIdle
  /\ EnvIdle

\* upstream answers the awaited call of the initial pass    lines 351-394
InitialFetchSettles ==
  /\ pc = "fetchInitial"
  /\ \E r \in UpstreamResponses :
       /\ response' = r
       /\ IF fetchBatch(r).threw
          THEN InitialError
          ELSE InitialResult(Len(fetchBatch(r).colleges))
  /\ UNCHANGED <<clientPc, clientOut, clientAgain, sinkVars, examVars,
                 mainVars, envVars>>

\* upstream answers the awaited call of the gap pass        lines 446-470
GapFetchSettles ==
  /\ pc = "fetchGap"
  /\ \E r \in UpstreamResponses :
       /\ response' = r
       /\ IF fetchBatch(r).threw
          THEN GapError
          ELSE GapResult(Len(fetchBatch(r).colleges))
  /\ UNCHANGED <<clientPc, clientOut, clientAgain, sinkVars, examVars,
                 mainVars, envVars>>

UpstreamNext ==
  \/ Start
  \/ InitialFetchSettles
  \/ InitialBackoffElapses
  \/ InitialDelayElapses
  \/ GapFetchSettles
  \/ GapBackoffElapses
  \/ GapDelayElapses

UpstreamSpec == UpstreamInit /\ [][UpstreamNext]_vars

\* ----------------------------------------------------------------- C27
\* upstream answered at the transport level, with no or empty content
NoContent(r) == r.kind = "ok" /\ r.content = "missing"

\* the step in which the awaited call is answered with no content
NoContentStep == pc \in {"fetchInitial", "fetchGap"} /\ NoContent(response')

\* C27: when the answer to a call has no content, fetchBatch returns the
\* empty list and throws nothing; the run records an attempt without
\* records, leaves the accumulator and the confirmed ranks as they were, and
\* counts the call among the three tries of the window: it backs off for a
\* retry if fewer than three were made and leaves the window otherwise.
C27_NoContentIsFailedAttempt ==
  /\ [][NoContentStep =>
          /\ fetchBatch(response') = Ok(<<>>)
          /\ trace'[Len(trace) + 1] = ResultEv(0)
          /\ colleges' = colleges
          /\ fetchedRanks' = fetchedRanks
          /\ attempt' = attempt
          /\ IF attempt < MAX_RETRIES
             THEN pc' \in {"backoffInitial", "backoffGap"}
             ELSE pc' \in {"delayInitial", "delayGap"}]_vars
  /\ [](\A p \in FetchPositions(trace) :
          Cardinality({q \in FetchPositions(trace) : trace[q] = trace[p]})
            <= MAX_RETRIES)

C27_Witness ==
  /\ pc = "delayInitial"
  /\ NoContent(response)
  /\ attempt = MAX_RETRIES
  /\ Exhausted(FALSE, batches[batchIdx])
  /\ batchIdx = 2
  /\ Len(colleges) = 2


\* ============================================= the configuration module
\* type EnvKey                                              env.ts 7-10
RequiredKeys ==
  {"PERPLEXITY_API_KEY", "GOOGLE_SHEETS_ID", "GOOGLE_APPLICATION_CREDENTIALS"}

\* const OPTIONAL_DEFAULTS                                  env.ts 12-15
OPTIONAL_DEFAULTS ==
  [PERPLEXITY_MODEL |-> Str(<<"llama-3.1-sonar-large-128k-online">>),
   GOOGLE_SHEETS_TAB |-> Str(<<"EngineeringTop100">>)]

EnvKeys == RequiredKeys \cup DOMAIN OPTIONAL_DEFAULTS

\* a variable is unset, empty, a relative path or word, or an absolute path
EnvValues == {Absent, Str(<<>>), Str(<<"v">>), Str(<<"/", "v">>)}

\* variant: only an unset variable is refused
RequireFails_unsetOnly(value) == value = Absent

\* if (!value) throw new Error(...)                         env.ts 19-21
RequireFails(value) == ~Truthy(value)

\* path.isAbsolute(p) ? p : path.join(process.cwd(), p)     env.ts 25-31
toAbsolutePath(maybeRelativePath) ==
  IF maybeRelativePath.chars # <<>> /\ Head(maybeRelativePath.chars) = "/"
  THEN maybeRelativePath
  ELSE Str(<<"/", "cwd", "/">> \o maybeRelativePath.chars)

\* the required variable whose requireEnv call throws, in the order the
\* object literal is evaluated (34, 37, 41), or "none"
FirstMissing(pe) ==
  IF RequireFails(pe["PERPLEXITY_API_KEY"]) THEN "PERPLEXITY_API_KEY"
  ELSE IF RequireFails(pe["GOOGLE_SHEETS_ID"]) THEN "GOOGLE_SHEETS_ID"
  ELSE IF RequireFails(pe["GOOGLE_APPLICATION_CREDENTIALS"])
       THEN "GOOGLE_APPLICATION_CREDENTIALS"
  ELSE "none"

\* export const env = { ... }                               env.ts 33-43
EnvObject(pe) ==
  [perplexityApiKey |-> pe["PERPLEXITY_API_KEY"],
   perplexityModel |->
     Coalesce(pe["PERPLEXITY_MODEL"], OPTIONAL_DEFAULTS.PERPLEXITY_MODEL),
   googleSheetId |-> pe["GOOGLE_SHEETS_ID"],
   googleSheetTab |->
     Coalesce(pe["GOOGLE_SHEETS_TAB"], OPTIONAL_DEFAULTS.GOOGLE_SHEETS_TAB),
   googleCredentialsPath |->
     toAbsolutePath(pe["GOOGLE_APPLICATION_CREDENTIALS"])]

\* upstream answers explored behind the configuration
EnvResponses ==
  {Resp("networkError", "none", <<>>), Resp("ok", "array", <<GoodItem>>)}

\* the legacy script has been started; its imports are not evaluated yet
EnvInit ==
  /\ processEnv \in [EnvKeys -> EnvValues]
  /\ envPc = "loading"
  /\ env = "none"
  /\ mainPc = "idle"
  /\ exitCode = 0
  /\ response \in EnvResponses
  /\ clientPc = "idle"
  /\ clientOut = "none"
  /\ clientAgain = "none"
  /\ sinkVariant = "legacy"
  /\ sinkPc = "idle"
  /\ sinkInput = <<>>
  /\ tabName = "Sheet1"
  /\ sheetTabs \in SUBSET TabTitles
  /\ sinkLog = <<>>
  /\ written = "none"
  /\ RunIdle
  /\ ExamIdle

\* config/env.ts is evaluated on import                     env.ts 33-43
LoadEnv ==
  /\ envPc = "loading"
  /\ IF FirstMissing(processEnv) # "none"
     THEN /\ envPc' = "failed"
          /\ env' = env
     ELSE /\ envPc' = "loaded"
          /\ env' = EnvObject(processEnv)
  /\ UNCHANGED <<processEnv, runVars, clientVars, sinkVars, examVars, mainVars>>

\* the imports are done: main() is called and starts the fetch
\*                                                fetchColleges.ts 1-8, 16
MainStarts ==
  /\ envPc = "loaded"
  /\ mainPc = "idle"
  /\ mainPc' = "fetching"
  /\ UNCHANGED <<exitCode, envVars, runVars, clientVars, sinkVars, examVars>>

EnvNext ==
  \/ LoadEnv
  \/ MainStarts
  \/ MainNext

EnvSpec == EnvInit /\ [][EnvNext]_vars

\* ----------------------------------------------------------------- C21
\* some required variable is absent or empty
RequiredMissing ==
  \E k \in RequiredKeys : processEnv[k] = Absent \/ processEnv[k] = Str(<<>>)

\* C21: if one of the three required variables is absent or empty, loading
\* the configuration fails, and no upstream call and no request to the
\* spreadsheet service is ever made; otherwise loading succeeds, with the
\* model and the tab name at their defaults when they are unset.
C21_RequiredOrFail ==
  /\ envPc # "loading" => (envPc = "failed" <=> RequiredMissing)
  /\ RequiredMissing =>
       mainPc = "idle" /\ sinkPc = "idle" /\ sinkLog = <<>>
  /\ mainPc # "idle" => envPc = "loaded"
  /\ envPc = "loaded" =>
       /\ processEnv["PERPLEXITY_MODEL"] = Absent =>
            env.perplexityModel = OPTIONAL_DEFAULTS.PERPLEXITY_MODEL
       /\ processEnv["GOOGLE_SHEETS_TAB"] = Absent =>
            env.googleSheetTab = OPTIONAL_DEFAULTS.GOOGLE_SHEETS_TAB
       /\ \A k \in RequiredKeys : Truthy(processEnv[k])

C21_Witness ==
  /\ envPc = "failed"
  /\ processEnv["PERPLEXITY_API_KEY"] = Str(<<"v">>)
  /\ processEnv["GOOGLE_SHEETS_ID"] = Str(<<>>)
  /\ processEnv["GOOGLE_APPLICATION_CREDENTIALS"] = Str(<<"/", "v">>)
  /\ processEnv["PERPLEXITY_MODEL"] = Absent
  /\ FirstMissing(processEnv) = "GOOGLE_SHEETS_ID"
  /\ mainPc = "idle"

====
